---- MODULE Spec2Model ----
(***************************************************************************)
(* Model of public/js/debug.js of memo_ai: the debug modal, the recorder   *)
(* of the last API call, the two clipboard exports and the DEBUG_MODE      *)
(* gate.  The page runs on one event loop: every action below is one       *)
(* uninterrupted run of a handler between two awaits.                      *)
(***************************************************************************)
EXTENDS Integers, Sequences, FiniteSets, TLC

VARIABLES
    \* ---- the page (DOM and browser API), fixed for a page session
    hasDebugModal,            \* document.getElementById('debugModal') finds it
    hasDebugInfoContent,      \* ... 'debugInfoContent'
    hasModelSelectMenuItem,   \* ... 'modelSelectMenuItem'
    hasDebugInfoMenuItem,     \* ... 'debugInfoMenuItem'
    hasClipboard,             \* navigator.clipboard is defined (secure context)
    \* ---- DEBUG_MODE gate
    serverMode,               \* window.App.debug.serverMode
    modelSelectDisplay,       \* modelSelectMenuItem.style.display
    debugInfoDisplay,         \* debugInfoMenuItem.style.display
    modelCurrent,             \* window.App.model.current
    storedModel,              \* localStorage['memo_ai_selected_model']
    defaultPrompt,            \* window.App.defaultPrompt
    cfgFetching,              \* initializeDebugMode runs awaiting fetch('/api/config')
    cfgParsing,               \* initializeDebugMode runs awaiting res.json()
    initCalls,                \* initializeDebugMode invocations so far
    \* ---- recorder
    lastApiCall,              \* window.App.debug.lastApiCall
    clock,                    \* the time new Date() reads
    \* ---- debug modal
    modalHidden,              \* debugModal.classList contains 'hidden'
    content,                  \* debugInfoContent.innerHTML, as its sequence of blocks
    loads,                    \* per loadDebugInfo run: "fetch", "json" or "done"
    debugFetches,             \* fetch('/api/debug5075378') calls so far
    lastModelList,            \* window.App.debug.lastModelList
    \* ---- clipboard exports
    clipboardWrites,          \* navigator.clipboard.writeText calls, with their outcome
    toasts,                   \* window.showToast calls
    copyCalls,                \* invocations of the two copy operations so far
    \* ---- history
    lastOp,                   \* the handler step that ran last, with its input
    escaped                   \* operations an exception has escaped from

gateVars == <<serverMode, modelSelectDisplay, debugInfoDisplay, modelCurrent,
              storedModel, defaultPrompt, cfgFetching, cfgParsing, initCalls>>
pageVars == <<hasDebugModal, hasDebugInfoContent, hasModelSelectMenuItem,
              hasDebugInfoMenuItem, hasClipboard>>
recVars == <<lastApiCall, clock>>
modalVars == <<modalHidden, content, loads, debugFetches, lastModelList>>
copyVars == <<clipboardWrites, toasts, copyCalls>>
vars == <<pageVars, gateVars, recVars, modalVars, copyVars, lastOp, escaped>>

\* ------------------------------------------------------------------ bounds
MaxInits == 2
MaxCalls == 2
MaxPageCalls == 1
MaxLoads == 2
MaxCopies == 2

\* ------------------------------------------------------------------ values
Null == "null"                 \* JavaScript null
NoKey == "<no key>"            \* localStorage holds no such key
Models == {"gemini/gemini-2.0-flash"}
None == <<>>                   \* an absent (undefined) field of a JSON body
Some(x) == <<x>>
IsSome(o) == o # <<>>
Prompts == {"", "You are a secretary."}
BuiltinPrompt == "builtin prompt"

\* JSON bodies of GET /api/config: debug_mode and default_system_prompt are optional
ConfigBodies ==
    [debug_mode : {None, Some(TRUE), Some(FALSE)},
     default_system_prompt : {None} \cup {Some(p) : p \in Prompts}]

Op(name, arg) == [op |-> name, arg |-> arg]

\* JSON values, and JavaScript's undefined
Str(s) == [t |-> "string", s |-> s]
Num(n) == [t |-> "number", n |-> n]
Bool(b) == [t |-> "boolean", b |-> b]
JNull == [t |-> "null"]
Undefined == [t |-> "undefined"]
\* an object is the sequence of its <<key, value>> properties, in insertion order
Obj(props) == [t |-> "object", props |-> props]
Arr(items) == [t |-> "array", items |-> items]

\* the recorder's slot is empty and no time has passed when the page has loaded
InitRecVars ==
    /\ lastApiCall = JNull
    /\ clock = 0

\* the modal is closed and empty, nothing has been stashed or copied
InitModalVars ==
    /\ modalHidden = TRUE
    /\ content = <<>>
    /\ loads = <<>>
    /\ debugFetches = 0
    /\ lastModelList = JNull

InitCopyVars ==
    /\ clipboardWrites = <<>>
    /\ toasts = <<>>
    /\ copyCalls = 0

\* ------------------------------------------------------------------ gate
\* data.debug_mode || false
DebugModeOrFalse(data) ==
    IF IsSome(data.debug_mode) THEN data.debug_mode[1] ELSE FALSE

\* the test `data.default_system_prompt !== undefined` in its place
PromptIsTruthy_PresentOnly(data) ==
    IsSome(data.default_system_prompt)

\* if (data.default_system_prompt): a missing or empty string is falsy
PromptIsTruthy(data) ==
    IsSome(data.default_system_prompt) /\ data.default_system_prompt[1] # ""

\* updateDebugModeUI with the clearing of the selection moved out of the else branch
updateDebugModeUI_ClearsAlways(mode) ==
    /\ IF hasModelSelectMenuItem
         THEN /\ modelSelectDisplay' = (IF mode THEN "" ELSE "none")
              /\ modelCurrent' = Null
              /\ storedModel' = NoKey
         ELSE UNCHANGED <<modelSelectDisplay, modelCurrent, storedModel>>
    /\ IF hasDebugInfoMenuItem
         THEN debugInfoDisplay' = (IF mode THEN "" ELSE "none")
         ELSE UNCHANGED debugInfoDisplay

\* updateDebugModeUI putting a selection back when the flag is true
updateDebugModeUI_RestoresOnTrue(mode) ==
    /\ IF hasModelSelectMenuItem
         THEN IF mode
                THEN /\ modelSelectDisplay' = ""
                     /\ modelCurrent' = "gemini/gemini-2.0-flash"
                     /\ storedModel' = "gemini/gemini-2.0-flash"
                ELSE /\ modelSelectDisplay' = "none"
                     /\ modelCurrent' = Null
                     /\ storedModel' = NoKey
         ELSE UNCHANGED <<modelSelectDisplay, modelCurrent, storedModel>>
    /\ IF hasDebugInfoMenuItem
         THEN debugInfoDisplay' = (IF mode THEN "" ELSE "none")
         ELSE UNCHANGED debugInfoDisplay

\* updateDebugModeUI(), reading the flag `mode` just stored in App.debug.serverMode
updateDebugModeUI(mode) ==
    /\ IF hasModelSelectMenuItem
         THEN IF mode
                THEN /\ modelSelectDisplay' = ""
                     /\ UNCHANGED <<modelCurrent, storedModel>>
                ELSE /\ modelSelectDisplay' = "none"
                     /\ modelCurrent' = Null
                     /\ storedModel' = NoKey
         ELSE UNCHANGED <<modelSelectDisplay, modelCurrent, storedModel>>
    /\ IF hasDebugInfoMenuItem
         THEN debugInfoDisplay' = (IF mode THEN "" ELSE "none")
         ELSE UNCHANGED debugInfoDisplay

\* initializeDebugMode(): up to the first await
initializeDebugMode ==
    /\ initCalls < MaxInits
    /\ initCalls' = initCalls + 1
    /\ cfgFetching' = cfgFetching + 1
    /\ lastOp' = Op("initializeDebugMode", None)
    /\ UNCHANGED <<pageVars, recVars, modalVars, copyVars, serverMode, modelSelectDisplay, debugInfoDisplay,
                   modelCurrent, storedModel, defaultPrompt, cfgParsing, escaped>>

\* the catch block without its assignment of false to the flag
configCatch_KeepsFlag ==
    /\ UNCHANGED serverMode
    /\ updateDebugModeUI(serverMode)

\* the catch block of initializeDebugMode
configCatch ==
    /\ serverMode' = FALSE
    /\ updateDebugModeUI(FALSE)

\* fetch('/api/config') rejects: network error
configFetchRejects ==
    /\ cfgFetching > 0
    /\ cfgFetching' = cfgFetching - 1
    /\ configCatch
    /\ lastOp' = Op("config fetch rejected", None)
    /\ UNCHANGED <<pageVars, recVars, modalVars, copyVars, defaultPrompt, cfgParsing, initCalls, escaped>>

\* the response arrives with !res.ok: warn and return
configNotOk ==
    /\ UNCHANGED <<serverMode, modelSelectDisplay, debugInfoDisplay,
                   modelCurrent, storedModel>>

configFetchNotOk(status) ==
    /\ cfgFetching > 0
    /\ cfgFetching' = cfgFetching - 1
    /\ configNotOk
    /\ lastOp' = Op("config not ok", status)
    /\ UNCHANGED <<pageVars, recVars, modalVars, copyVars, defaultPrompt, cfgParsing, initCalls, escaped>>

\* the response arrives with res.ok: await res.json()
configFetchOk ==
    /\ cfgFetching > 0
    /\ cfgFetching' = cfgFetching - 1
    /\ cfgParsing' = cfgParsing + 1
    /\ lastOp' = Op("config ok", None)
    /\ UNCHANGED <<pageVars, recVars, modalVars, copyVars, serverMode, modelSelectDisplay, debugInfoDisplay,
                   modelCurrent, storedModel, defaultPrompt, initCalls, escaped>>

\* res.json() rejects (the body is no JSON), or the body is the JSON null and
\* data.debug_mode throws a TypeError: both land in the catch block
configJsonFails(why) ==
    /\ cfgParsing > 0
    /\ cfgParsing' = cfgParsing - 1
    /\ configCatch
    /\ lastOp' = Op("config json failed", why)
    /\ UNCHANGED <<pageVars, recVars, modalVars, copyVars, defaultPrompt, cfgFetching, initCalls, escaped>>

\* the statements after `const data = await res.json()`
configApply(data) ==
    /\ serverMode' = DebugModeOrFalse(data)
    /\ defaultPrompt' = IF PromptIsTruthy(data)
                          THEN data.default_system_prompt[1] ELSE defaultPrompt
    /\ updateDebugModeUI(DebugModeOrFalse(data))

configJsonParsed(data) ==
    /\ cfgParsing > 0
    /\ cfgParsing' = cfgParsing - 1
    /\ configApply(data)
    /\ lastOp' = Op("config parsed", data)
    /\ UNCHANGED <<pageVars, recVars, modalVars, copyVars, cfgFetching, initCalls, escaped>>

\* another module of the app (model.js) stores the user's choice of a model
selectModel(m) ==
    /\ modelCurrent # m
    /\ modelCurrent' = m
    /\ storedModel' = m
    /\ lastOp' = Op("selectModel", m)
    /\ UNCHANGED <<pageVars, recVars, modalVars, copyVars, serverMode, modelSelectDisplay, debugInfoDisplay,
                   defaultPrompt, cfgFetching, cfgParsing, initCalls, escaped>>

HttpErrors == {500}
JsonFailures == {"SyntaxError", "TypeError: data is null"}

InitGateVars ==
    /\ serverMode = FALSE
    /\ modelSelectDisplay \in (IF hasModelSelectMenuItem THEN {"", "none"} ELSE {"absent"})
    /\ debugInfoDisplay \in (IF hasDebugInfoMenuItem THEN {"", "none"} ELSE {"absent"})
    /\ storedModel \in {NoKey} \cup Models
    /\ modelCurrent = (IF storedModel = NoKey THEN Null ELSE storedModel)
    /\ defaultPrompt = BuiltinPrompt
    /\ cfgFetching = 0
    /\ cfgParsing = 0
    /\ initCalls = 0

InitGate ==
    /\ hasDebugModal = TRUE
    /\ hasDebugInfoContent = TRUE
    /\ hasClipboard = TRUE
    /\ hasModelSelectMenuItem \in BOOLEAN
    /\ hasDebugInfoMenuItem \in BOOLEAN
    /\ InitGateVars
    /\ InitRecVars
    /\ InitModalVars
    /\ InitCopyVars
    /\ lastOp = Op("load page", None)
    /\ escaped = {}

NextGate ==
    \/ initializeDebugMode
    \/ configFetchRejects
    \/ \E status \in HttpErrors : configFetchNotOk(status)
    \/ configFetchOk
    \/ \E why \in JsonFailures : configJsonFails(why)
    \/ \E data \in ConfigBodies : configJsonParsed(data)
    \/ \E m \in Models : selectModel(m)

SpecGate == InitGate /\ [][NextGate]_vars

\* ------------------------------------------------------------------ JSON values
\* `[Image: ${v.length} chars]`
ImagePlaceholder(v) == "[Image: " \o ToString(Len(v)) \o " chars]"

\* the replacer that misses the field: it compares the key with 'image'
SanitizeReplacer_WrongKey(k, v) ==
    IF k = "image" /\ v.t = "string" THEN Str(ImagePlaceholder(v.s)) ELSE v

\* (k, v) => (k === 'image_data' && typeof v === 'string') ? `[Image: ...]` : v
SanitizeReplacer(k, v) ==
    IF k = "image_data" /\ v.t = "string" THEN Str(ImagePlaceholder(v.s)) ELSE v

\* JSON.parse(JSON.stringify(value, replacer)) as one pass over the value: the
\* replacer sees every property (an array's under its index), a property whose
\* value comes out undefined is left out of an object and is null in an array,
\* and the result for the root is undefined when the root is.
RECURSIVE SanitizeValue(_, _), SanitizeProps(_), SanitizeItems(_, _)
SanitizeValue(k, v) ==
    LET r == SanitizeReplacer(k, v) IN
    CASE r.t = "object" -> Obj(SanitizeProps(r.props))
      [] r.t = "array"  -> Arr(SanitizeItems(r.items, 0))
      [] OTHER          -> r

SanitizeProps(props) ==
    IF props = <<>> THEN <<>>
    ELSE LET w == SanitizeValue(Head(props)[1], Head(props)[2]) IN
         (IF w = Undefined THEN <<>> ELSE << <<Head(props)[1], w>> >>)
            \o SanitizeProps(Tail(props))

SanitizeItems(items, i) ==
    IF items = <<>> THEN <<>>
    ELSE LET w == SanitizeValue(ToString(i), Head(items)) IN
         <<IF w = Undefined THEN JNull ELSE w>> \o SanitizeItems(Tail(items), i + 1)

\* JSON.parse(JSON.stringify(payload, replacer)): JSON.stringify gives undefined
\* for an undefined root, and JSON.parse(undefined) throws a SyntaxError
SanitizeThrows(payload) == SanitizeValue("", payload) = Undefined

\* new Date().toISOString()
ToISOString(time) == "2026-01-01T00:00:0" \o ToString(time) \o ".000Z"

\* recordApiCall(endpoint, method, request, response, error = null, status = null):
\* the object literal is evaluated before the assignment, so a throw in it
\* leaves the slot as it was
recordApiCall(endpoint, method, request, response, error, status) ==
    IF SanitizeThrows(request) \/ SanitizeThrows(response)
      THEN /\ escaped' = escaped \cup {"recordApiCall"}
           /\ UNCHANGED lastApiCall
      ELSE /\ lastApiCall' =
                [timestamp |-> ToISOString(clock), endpoint |-> endpoint,
                 method |-> method, status |-> status, error |-> error,
                 request |-> SanitizeValue("", request),
                 response |-> SanitizeValue("", response)]
           /\ UNCHANGED escaped

\* a part of the app that did network I/O calls the recorder; time passes
apiCallRecorded(c, request, response) ==
    /\ clock < MaxCalls
    /\ clock' = clock + 1
    /\ recordApiCall(c.endpoint, c.method, request, response, c.error, c.status)
    /\ lastOp' = Op("recordApiCall",
                    [at |-> ToISOString(clock), endpoint |-> c.endpoint,
                     method |-> c.method, status |-> c.status, error |-> c.error,
                     request |-> request, response |-> response])
    /\ UNCHANGED <<pageVars, gateVars, modalVars, copyVars>>

\* the calls the app records: endpoint, method, and the optional error and status
ApiCalls ==
    {[endpoint |-> "/api/chat", method |-> "POST", error |-> JNull, status |-> Num(200)],
     [endpoint |-> "/api/targets", method |-> "GET",
      error |-> Str("Failed to fetch"), status |-> JNull]}

Image == "iVBORw0KGgo="
\* request and response payloads: absent, null, and JSON values that carry
\* image_data at the top, nested in arrays and objects, as a string and not
Payloads ==
    {Undefined,
     JNull,
     Str(Image),
     Obj(<< <<"text", Str("memo")>>, <<"image_data", Str(Image)>> >>),
     Obj(<< <<"image_data", Str("")>>, <<"ok", Bool(TRUE)>> >>),
     Obj(<< <<"messages",
             Arr(<< Obj(<< <<"role", Str("user")>>, <<"image_data", Str(Image)>> >>),
                    Obj(<< <<"image_data", JNull>>, <<"n", Num(3)>> >>) >>)>> >>),
     Arr(<< Str(Image), Obj(<< <<"image_data", Str("QUJD")>> >>) >>),
     Obj(<< <<"image_data", Arr(<< Str(Image) >>)>> >>)}

InitRecorder ==
    /\ hasDebugModal = TRUE
    /\ hasDebugInfoContent = TRUE
    /\ hasClipboard = TRUE
    /\ hasModelSelectMenuItem = TRUE
    /\ hasDebugInfoMenuItem = TRUE
    /\ InitGateVars
    /\ modelSelectDisplay = "none" /\ debugInfoDisplay = "none" /\ storedModel = NoKey
    /\ InitRecVars
    /\ InitModalVars
    /\ InitCopyVars
    /\ lastOp = Op("load page", None)
    /\ escaped = {}

NextRecorder ==
    \E c \in ApiCalls, request \in Payloads, response \in Payloads :
        apiCallRecorded(c, request, response)

SpecRecorder == InitRecorder /\ [][NextRecorder]_vars

\* ------------------------------------------------------------------ JSON text
Quote(s) == "\"" \o s \o "\""

\* JSON.stringify(value, null, 2): each nesting level indents by two spaces
RECURSIVE Stringify(_, _), StringifyProps(_, _), StringifyItems(_, _)
Stringify(v, indent) ==
    CASE v.t = "string"  -> Quote(v.s)
      [] v.t = "number"  -> ToString(v.n)
      [] v.t = "boolean" -> (IF v.b THEN "true" ELSE "false")
      [] v.t = "object"  ->
            IF v.props = <<>> THEN "{}"
            ELSE "{\n" \o StringifyProps(v.props, indent \o "  ") \o "\n" \o indent \o "}"
      [] v.t = "array"   ->
            IF v.items = <<>> THEN "[]"
            ELSE "[\n" \o StringifyItems(v.items, indent \o "  ") \o "\n" \o indent \o "]"
      [] OTHER           -> "null"

StringifyProps(props, indent) ==
    indent \o Quote(Head(props)[1]) \o ": " \o Stringify(Head(props)[2], indent)
        \o (IF Tail(props) = <<>> THEN ""
            ELSE ",\n" \o StringifyProps(Tail(props), indent))

StringifyItems(items, indent) ==
    indent \o Stringify(Head(items), indent)
        \o (IF Tail(items) = <<>> THEN ""
            ELSE ",\n" \o StringifyItems(Tail(items), indent))

\* the LastApiCall object, its properties in the order of the literal
ApiCallObject(r) ==
    Obj(<< <<"timestamp", Str(r.timestamp)>>, <<"endpoint", Str(r.endpoint)>>,
           <<"method", Str(r.method)>>, <<"status", r.status>>, <<"error", r.error>>,
           <<"request", r.request>>, <<"response", r.response>> >>)

\* text.replace(/</g, '&lt;'): every character '<' of the text, halving the
\* text to reach each character
RECURSIVE EscapeLt(_)
EscapeLt(text) ==
    IF Len(text) = 0 THEN ""
    ELSE IF Len(text) = 1 THEN (IF text = "<" THEN "&lt;" ELSE text)
    ELSE EscapeLt(SubSeq(text, 1, Len(text) \div 2))
            \o EscapeLt(SubSeq(text, Len(text) \div 2 + 1, Len(text)))

\* origins.join(', ')
RECURSIVE Join(_)
Join(strings) ==
    IF strings = <<>> THEN ""
    ELSE IF Tail(strings) = <<>> THEN Head(strings)
    ELSE Head(strings) \o ", " \o Join(Tail(strings))

\* whether a value is truthy in JavaScript
Truthy(v) ==
    CASE v.t = "string"  -> v.s # ""
      [] v.t = "number"  -> v.n # 0
      [] v.t = "boolean" -> v.b
      [] v.t \in {"object", "array"} -> TRUE
      [] OTHER -> FALSE

\* ------------------------------------------------------------------ debug modal
LoadingIndicator == <<[block |-> "loading-indicator"]>>

Hint == "hint: check that the server is running"
\* the catch block's markup: one debug-error panel with err.message and the hint
ErrorPanel(message) ==
    <<[block |-> "debug-error", message |-> message, hint |-> Hint]>>

NoApiCallYet == "no API communication yet"

\* what renderDebugInfo throws on, before it assigns innerHTML: a null body
\* (data.timestamp), cors without allowed_origins (.join), models without
\* raw_list (JSON.stringify gives undefined, .replace)
RenderError(data) ==
    IF data = JNull THEN "TypeError: data is null"
    ELSE IF IsSome(data.cors) /\ ~IsSome(data.cors[1].allowed_origins)
      THEN "TypeError: data.cors.allowed_origins is undefined"
    ELSE IF IsSome(data.models) /\ data.models[1].raw_list = Undefined
      THEN "TypeError: JSON.stringify(...) is undefined"
    ELSE ""

\* whether the run of renderDebugInfo reaches the assignment of lastModelList
ReachesModels(data) ==
    /\ data # JNull
    /\ ~(IsSome(data.cors) /\ ~IsSome(data.cors[1].allowed_origins))
    /\ IsSome(data.models)

\* `<div class="debug-timestamp">...${data.timestamp || 'N/A'}</div>`
TimestampBlock(data) ==
    <<[block |-> "debug-timestamp",
       text |-> IF IsSome(data.timestamp) /\ data.timestamp[1] # ""
                  THEN data.timestamp[1] ELSE "N/A"]>>

\* if (data.cors) { ... }: the origins joined, one of the two labels, and the
\* platform when it is truthy
CorsSection(data) ==
    IF IsSome(data.cors)
      THEN <<[block |-> "cors",
              origins |-> Join(data.cors[1].allowed_origins[1]),
              restricted |-> IF data.cors[1].is_restricted
                               THEN "yes" ELSE "no (all allowed)",
              platform |-> IF IsSome(data.cors[1].detected_platform)
                                /\ data.cors[1].detected_platform[1] # ""
                             THEN data.cors[1].detected_platform ELSE None]>>
      ELSE <<>>

\* the last-API-call section: the escaped JSON of the slot, or the fallback text
LastApiCallSection ==
    <<[block |-> "last-api-call",
       body |-> IF lastApiCall # JNull
                  THEN [pre |-> EscapeLt(Stringify(ApiCallObject(lastApiCall), ""))]
                  ELSE [hint |-> NoApiCallYet]]>>

\* the environment section guarded by `if (data.environment)`
EnvironmentSection_SkipsMissing(data) ==
    IF IsSome(data.environment)
      THEN <<[block |-> "environment", items |-> data.environment[1]]>>
      ELSE <<>>

\* the environment section: Object.entries(data.environment || {})
EnvironmentSection(data) ==
    <<[block |-> "environment",
       items |-> IF IsSome(data.environment) THEN data.environment[1] ELSE <<>>]>>

\* if (data.env_vars) { ... }: each value as `${value || 'null'}`
EnvVarsSection(data) ==
    IF IsSome(data.env_vars)
      THEN <<[block |-> "env-vars",
              items |-> [i \in 1..Len(data.env_vars[1]) |->
                           <<data.env_vars[1][i][1],
                             IF data.env_vars[1][i][2] \in {"", Null}
                               THEN "null" ELSE data.env_vars[1][i][2]>>]]>>
      ELSE <<>>

\* if (data.models) { ... }: the two counts and the escaped JSON of raw_list
ModelsSection(data) ==
    IF IsSome(data.models)
      THEN <<[block |-> "models",
              recommended |-> data.models[1].recommended_count,
              total |-> data.models[1].total_count,
              pre |-> EscapeLt(Stringify(data.models[1].raw_list, ""))]>>
      ELSE <<>>

\* the markup renderDebugInfo builds, section by section
RenderedHtml(data) ==
    TimestampBlock(data) \o CorsSection(data) \o LastApiCallSection
        \o EnvironmentSection(data) \o EnvVarsSection(data) \o ModelsSection(data)

\* renderDebugInfo stashing `data.models?.raw_list` whether or not models is there
renderDebugInfo_ClearsWithoutModels(data) ==
    IF hasDebugInfoContent
      THEN /\ lastModelList' = IF ReachesModels(data)
                                 THEN data.models[1].raw_list ELSE Undefined
           /\ RenderError(data) = "" => content' = RenderedHtml(data)
      ELSE UNCHANGED <<content, lastModelList>>

\* renderDebugInfo returning early while the modal is closed
renderDebugInfo_SkipsWhenHidden(data) ==
    IF hasDebugInfoContent /\ ~modalHidden
      THEN /\ lastModelList' = IF ReachesModels(data)
                                 THEN data.models[1].raw_list ELSE lastModelList
           /\ RenderError(data) = "" => content' = RenderedHtml(data)
      ELSE UNCHANGED <<content, lastModelList>>

\* renderDebugInfo(data): nothing without the content container; else the
\* model list is stashed when the run gets there, and the markup is assigned
\* when nothing threw
renderDebugInfo(data) ==
    IF hasDebugInfoContent
      THEN /\ lastModelList' = IF ReachesModels(data)
                                 THEN data.models[1].raw_list ELSE lastModelList
           /\ RenderError(data) = "" => content' = RenderedHtml(data)
      ELSE UNCHANGED <<content, lastModelList>>

\* loadDebugInfo(): up to the first await
loadDebugInfo ==
    IF hasDebugInfoContent
      THEN /\ content' = LoadingIndicator
           /\ loads' = Append(loads, "fetch")
           /\ debugFetches' = debugFetches + 1
      ELSE UNCHANGED <<content, loads, debugFetches>>

\* openDebugModal(): without the modal element, modal.classList throws a
\* TypeError before loadDebugInfo is called
openDebugModal ==
    /\ (hasDebugModal /\ hasDebugInfoContent) => Len(loads) < MaxLoads
    /\ IF hasDebugModal
         THEN /\ modalHidden' = FALSE
              /\ loadDebugInfo
              /\ UNCHANGED escaped
         ELSE /\ escaped' = escaped \cup {"openDebugModal"}
              /\ UNCHANGED <<modalHidden, content, loads, debugFetches>>
    /\ lastOp' = Op("openDebugModal", None)
    /\ UNCHANGED <<pageVars, gateVars, recVars, copyVars, lastModelList>>

\* closeDebugModal()
closeDebugModal ==
    /\ IF hasDebugModal
         THEN /\ modalHidden' = TRUE
              /\ UNCHANGED escaped
         ELSE /\ escaped' = escaped \cup {"closeDebugModal"}
              /\ UNCHANGED modalHidden
    /\ lastOp' = Op("closeDebugModal", None)
    /\ UNCHANGED <<pageVars, gateVars, recVars, copyVars, content, loads, debugFetches,
                   lastModelList>>

\* loadDebugInfo() called on its own (it is exported)
loadDebugInfoCalled ==
    /\ hasDebugInfoContent => Len(loads) < MaxLoads
    /\ loadDebugInfo
    /\ lastOp' = Op("loadDebugInfo", None)
    /\ UNCHANGED <<pageVars, gateVars, recVars, copyVars, modalHidden, lastModelList,
                   escaped>>

\* the catch block only logging the error
loadCatch_KeepsContent(message) ==
    UNCHANGED content

\* the catch block adding its panel to what the container holds
loadCatch_Appends(message) ==
    content' = content \o ErrorPanel(message)

\* the catch block of loadDebugInfo, writing to the element the run looked up
loadCatch(message) ==
    content' = ErrorPanel(message)

\* fetch('/api/debug5075378') rejects
debugFetchRejects(i) ==
    /\ loads[i] = "fetch"
    /\ loads' = [loads EXCEPT ![i] = "done"]
    /\ loadCatch("Failed to fetch")
    /\ lastOp' = Op("debug fetch rejected", [run |-> i, message |-> "Failed to fetch"])
    /\ UNCHANGED <<pageVars, gateVars, recVars, copyVars, modalHidden, lastModelList,
                   debugFetches, escaped>>

\* `HTTP ${res.status}: ${res.statusText}`
HttpErrorMessage(res) == "HTTP " \o ToString(res.status) \o ": " \o res.statusText

\* the response arrives with !res.ok: the Error thrown lands in the catch block
debugFetchNotOk(i, res) ==
    /\ loads[i] = "fetch"
    /\ loads' = [loads EXCEPT ![i] = "done"]
    /\ loadCatch(HttpErrorMessage(res))
    /\ lastOp' = Op("debug not ok", [run |-> i, res |-> res])
    /\ UNCHANGED <<pageVars, gateVars, recVars, copyVars, modalHidden, lastModelList,
                   debugFetches, escaped>>

\* the response arrives with res.ok: await res.json()
debugFetchOk(i) ==
    /\ loads[i] = "fetch"
    /\ loads' = [loads EXCEPT ![i] = "json"]
    /\ lastOp' = Op("debug ok", [run |-> i])
    /\ UNCHANGED <<pageVars, gateVars, recVars, copyVars, modalHidden, content,
                   debugFetches, lastModelList, escaped>>

JsonSyntaxError == "SyntaxError: Unexpected token < in JSON at position 0"

\* res.json() rejects: the body is no JSON
debugJsonFails(i) ==
    /\ loads[i] = "json"
    /\ loads' = [loads EXCEPT ![i] = "done"]
    /\ loadCatch(JsonSyntaxError)
    /\ lastOp' = Op("debug json failed", [run |-> i, message |-> JsonSyntaxError])
    /\ UNCHANGED <<pageVars, gateVars, recVars, copyVars, modalHidden, lastModelList,
                   debugFetches, escaped>>

\* the run dropping its response when a later run has been started meanwhile
debugJsonParsed_DropsStale(i, data) ==
    /\ loads[i] = "json"
    /\ loads' = [loads EXCEPT ![i] = "done"]
    /\ IF i < Len(loads)
         THEN UNCHANGED <<content, lastModelList>>
         ELSE /\ renderDebugInfo(data)
              /\ (hasDebugInfoContent /\ RenderError(data) # "") =>
                    loadCatch(RenderError(data))
    /\ lastOp' = Op("debug parsed", [run |-> i, data |-> data])
    /\ UNCHANGED <<pageVars, gateVars, recVars, copyVars, modalHidden, debugFetches,
                   escaped>>

\* the body is parsed: renderDebugInfo(data), inside the try: what it throws
\* lands in the catch block
debugJsonParsed(i, data) ==
    /\ loads[i] = "json"
    /\ loads' = [loads EXCEPT ![i] = "done"]
    /\ renderDebugInfo(data)
    /\ (hasDebugInfoContent /\ RenderError(data) # "") => loadCatch(RenderError(data))
    /\ lastOp' = Op("debug parsed", [run |-> i, data |-> data])
    /\ UNCHANGED <<pageVars, gateVars, recVars, copyVars, modalHidden, debugFetches,
                   escaped>>

\* ------------------------------------------------------------------ clipboard
HasShowToast == TRUE          \* main.js defines window.showToast
ToastNoModelData == "no data to copy"
ToastNoHistory == "no history to copy"
ToastModelCopied == "model data copied"
ToastCopied == "copied"
ToastCopyFailed == "copy failed"
Banner == "=== Memo AI Debug ==="

\* window.showToast && window.showToast(message); `write` is the clipboard
\* write the notification reports on, 0 for none
showToast(message, write) ==
    toasts' = IF HasShowToast
                THEN Append(toasts, [message |-> message, write |-> write])
                ELSE toasts

\* the body of a copy operation: `value` is the slot, `text` what is written;
\* without navigator.clipboard the call of writeText throws a TypeError
copySlot(name, value, text, nothing) ==
    IF ~Truthy(value)
      THEN /\ showToast(nothing, 0)
           /\ UNCHANGED <<clipboardWrites, escaped>>
      ELSE IF hasClipboard
        THEN /\ clipboardWrites' =
                  Append(clipboardWrites, [by |-> name, text |-> text, state |-> "pending"])
             /\ UNCHANGED <<toasts, escaped>>
        ELSE /\ escaped' = escaped \cup {name}
             /\ UNCHANGED <<clipboardWrites, toasts>>

\* copyModelList testing the slot of the other operation for emptiness
copyModelList_ChecksOtherSlot ==
    /\ copyCalls < MaxCopies
    /\ copyCalls' = copyCalls + 1
    /\ copySlot("copyModelList",
                IF lastApiCall = JNull THEN JNull ELSE ApiCallObject(lastApiCall),
                Stringify(lastModelList, ""), ToastNoModelData)
    /\ lastOp' = Op("copyModelList", None)
    /\ UNCHANGED <<pageVars, gateVars, recVars, modalVars>>

\* copyModelList()
copyModelList ==
    /\ copyCalls < MaxCopies
    /\ copyCalls' = copyCalls + 1
    /\ copySlot("copyModelList", lastModelList, Stringify(lastModelList, ""),
                ToastNoModelData)
    /\ lastOp' = Op("copyModelList", None)
    /\ UNCHANGED <<pageVars, gateVars, recVars, modalVars>>

\* copyLastApiCall(); the slot holds null or a record, and a record is truthy
copyLastApiCall ==
    /\ copyCalls < MaxCopies
    /\ copyCalls' = copyCalls + 1
    /\ copySlot("copyLastApiCall",
                IF lastApiCall = JNull THEN JNull ELSE ApiCallObject(lastApiCall),
                IF lastApiCall = JNull THEN ""
                ELSE Banner \o "\n" \o Stringify(ApiCallObject(lastApiCall), ""),
                ToastNoHistory)
    /\ lastOp' = Op("copyLastApiCall", None)
    /\ UNCHANGED <<pageVars, gateVars, recVars, modalVars>>

\* the promise of writeText resolves: the .then callback
clipboardWriteResolves(i) ==
    /\ clipboardWrites[i].state = "pending"
    /\ clipboardWrites' = [clipboardWrites EXCEPT ![i].state = "resolved"]
    /\ showToast(IF clipboardWrites[i].by = "copyModelList"
                   THEN ToastModelCopied ELSE ToastCopied, i)
    /\ lastOp' = Op("clipboard write resolved", i)
    /\ UNCHANGED <<pageVars, gateVars, recVars, modalVars, copyCalls, escaped>>

\* the promise of writeText rejects: the .catch callback
clipboardWriteRejects(i) ==
    /\ clipboardWrites[i].state = "pending"
    /\ clipboardWrites' = [clipboardWrites EXCEPT ![i].state = "rejected"]
    /\ showToast(ToastCopyFailed, i)
    /\ lastOp' = Op("clipboard write rejected", i)
    /\ UNCHANGED <<pageVars, gateVars, recVars, modalVars, copyCalls, escaped>>

\* ------------------------------------------------------------------ the debug page
\* bodies of GET /api/debug5075378: every field is optional
CorsInfo ==
    [allowed_origins |-> Some(<<"http://localhost:8000", "https://memo.example">>),
     is_restricted |-> TRUE, detected_platform |-> Some("vercel")]
CorsWithoutOrigins ==
    [allowed_origins |-> None, is_restricted |-> FALSE, detected_platform |-> None]
Environment == << <<"python_version", "3.11">> >>
EnvVars == << <<"GEMINI_API_KEY", "AIza***">>, <<"NOTION_API_KEY", Null>> >>
ModelList(list) == [recommended_count |-> 1, total_count |-> 2, raw_list |-> list]
RawListA == Arr(<< Obj(<< <<"id", Str("gemini/gemini-2.0-flash")>> >>),
                   Obj(<< <<"id", Str("<gemma-3-27b>")>> >>) >>)
RawListB == Arr(<< Obj(<< <<"id", Str("gemini/gemini-1.5-pro")>> >>) >>)

DebugBody(timestamp, cors, environment, env_vars, models) ==
    [timestamp |-> timestamp, cors |-> cors, environment |-> environment,
     env_vars |-> env_vars, models |-> models]

\* snapshots with every optional field present, none, each one alone, and the
\* malformed ones: cors without allowed_origins, models without raw_list, null
DebugBodies ==
    {DebugBody(Some("2026-11-01T12:00:00"), Some(CorsInfo), Some(Environment),
               Some(EnvVars), Some(ModelList(RawListA))),
     DebugBody(None, None, None, None, None),
     DebugBody(Some("2026-11-01T12:00:00"), Some(CorsInfo), Some(Environment), None, None),
     DebugBody(Some("2026-11-01T12:00:00"), None, Some(Environment), Some(EnvVars), None),
     DebugBody(None, None, None, None, Some(ModelList(RawListB))),
     DebugBody(None, Some(CorsWithoutOrigins), None, None, Some(ModelList(RawListB))),
     DebugBody(None, None, None, None, Some(ModelList(Undefined))),
     JNull}

HttpFailures ==
    {[status |-> 500, statusText |-> "Internal Server Error"],
     [status |-> 404, statusText |-> "Not Found"]}

\* the payloads the app records while the debug page is in use
ChatRequest == Obj(<< <<"text", Str("<b>memo</b>")>>, <<"image_data", Str(Image)>> >>)

\* the recorder as the rest of the app calls it while the debug page is in use
pageApiCallRecorded(c, request, response) ==
    /\ clock < MaxPageCalls
    /\ apiCallRecorded(c, request, response)

PageApiCall ==
    [endpoint |-> "/api/chat", method |-> "POST", error |-> JNull, status |-> Num(200)]

InitPage ==
    /\ hasModelSelectMenuItem = TRUE
    /\ hasDebugInfoMenuItem = TRUE
    /\ InitGateVars
    /\ modelSelectDisplay = "none" /\ debugInfoDisplay = "none" /\ storedModel = NoKey
    /\ InitRecVars
    /\ InitModalVars
    /\ InitCopyVars
    /\ lastOp = Op("load page", None)
    /\ escaped = {}

\* the debug modal: pages with and without the modal and its content container
InitModal ==
    /\ hasDebugModal \in BOOLEAN
    /\ hasDebugInfoContent \in BOOLEAN
    /\ hasClipboard = TRUE
    /\ InitPage

NextModal ==
    \/ openDebugModal
    \/ closeDebugModal
    \/ loadDebugInfoCalled
    \/ \E i \in 1..Len(loads) : debugFetchRejects(i)
    \/ \E i \in 1..Len(loads), res \in HttpFailures : debugFetchNotOk(i, res)
    \/ \E i \in 1..Len(loads) : debugFetchOk(i)
    \/ \E i \in 1..Len(loads) : debugJsonFails(i)
    \/ \E i \in 1..Len(loads), data \in DebugBodies : debugJsonParsed(i, data)
    \/ pageApiCallRecorded(PageApiCall, ChatRequest, JNull)

SpecModal == InitModal /\ [][NextModal]_vars

\* the clipboard exports: pages with and without navigator.clipboard; the debug
\* page is loaded to stash a model list
CopyBodies ==
    {DebugBody(None, None, None, None, models) :
        models \in {None, Some(ModelList(RawListA)), Some(ModelList(RawListB))}}

\* the user opens the modal once the load before has settled (the overlapping
\* loads are those of SpecModal)
openDebugModalAgain ==
    /\ \A i \in 1..Len(loads) : loads[i] = "done"
    /\ openDebugModal

InitCopy ==
    /\ hasDebugModal = TRUE
    /\ hasDebugInfoContent = TRUE
    /\ hasClipboard \in BOOLEAN
    /\ InitPage

NextCopy ==
    \/ openDebugModalAgain
    \/ \E i \in 1..Len(loads) : debugFetchOk(i)
    \/ \E i \in 1..Len(loads), data \in CopyBodies : debugJsonParsed(i, data)
    \/ pageApiCallRecorded(PageApiCall, ChatRequest, JNull)
    \/ copyModelList
    \/ copyLastApiCall
    \/ \E i \in 1..Len(clipboardWrites) : clipboardWriteResolves(i)
    \/ \E i \in 1..Len(clipboardWrites) : clipboardWriteRejects(i)

SpecCopy == InitCopy /\ [][NextCopy]_vars

\* the modal as the user drives it: every load is issued by opening the modal,
\* which the user may close and open again while responses are on their way
InitClose ==
    /\ hasDebugModal = TRUE
    /\ hasDebugInfoContent = TRUE
    /\ hasClipboard = TRUE
    /\ InitPage

NextClose ==
    \/ openDebugModal
    \/ closeDebugModal
    \/ \E i \in 1..Len(loads) : debugFetchRejects(i)
    \/ \E i \in 1..Len(loads), res \in HttpFailures : debugFetchNotOk(i, res)
    \/ \E i \in 1..Len(loads) : debugFetchOk(i)
    \/ \E i \in 1..Len(loads) : debugJsonFails(i)
    \/ \E i \in 1..Len(loads), data \in DebugBodies : debugJsonParsed(i, data)

SpecClose == InitClose /\ [][NextClose]_vars

\* the response of run i arrives, or its body is read: one step of the run
SettleRun(i) ==
    /\ i \in 1..Len(loads)
    /\ \/ debugFetchRejects(i)
       \/ \E res \in HttpFailures : debugFetchNotOk(i, res)
       \/ debugFetchOk(i)
       \/ debugJsonFails(i)
       \/ \E data \in DebugBodies : debugJsonParsed(i, data)

\* every debug fetch that was issued settles, and so does the read of its
\* body: the browser ends each of them with a response or an error
SpecCloseFair ==
    SpecClose /\ \A i \in 1..MaxLoads : WF_vars(SettleRun(i))

\* the stashed model list and its export: the modal is opened again and again,
\* each load succeeds or fails, and the user copies the model list in between
StashBodies ==
    CopyBodies \cup {DebugBody(None, None, None, None, Some(ModelList(Undefined)))}

NextStash ==
    \/ openDebugModalAgain
    \/ \E i \in 1..Len(loads) : debugFetchRejects(i)
    \/ \E i \in 1..Len(loads), res \in HttpFailures : debugFetchNotOk(i, res)
    \/ \E i \in 1..Len(loads) : debugFetchOk(i)
    \/ \E i \in 1..Len(loads) : debugJsonFails(i)
    \/ \E i \in 1..Len(loads), data \in StashBodies : debugJsonParsed(i, data)
    \/ copyModelList
    \/ \E i \in 1..Len(clipboardWrites) : clipboardWriteResolves(i)

SpecStash == InitClose /\ [][NextStash]_vars

\* ------------------------------------------------------------------ claims: gate
\* the state the gate leaves for a false flag: each present gated element hidden
PresentElementsHidden ==
    /\ hasModelSelectMenuItem => modelSelectDisplay = "none"
    /\ hasDebugInfoMenuItem => debugInfoDisplay = "none"

SelectionCleared == modelCurrent = Null /\ storedModel = NoKey

\* C1: after initializeDebugMode received a non-2xx response the flag is false,
\* each present gated element is hidden, the selected model is cleared and the
\* persisted preference is removed.
C1_NotOkDefaultsToFalse ==
    lastOp.op = "config not ok" =>
        serverMode = FALSE /\ PresentElementsHidden /\ SelectionCleared

\* C2: when the config fetch throws (network error, or a 2xx body that fails to
\* parse), initializeDebugMode ends as for {debug_mode: false}: the flag is false,
\* each present gated element has display 'none', with the model-selection element
\* in the page the selected model is null and the preference key is absent, and
\* no exception has escaped.
C2_ThrowEndsGatedOff ==
    lastOp.op \in {"config fetch rejected", "config json failed"} =>
        /\ serverMode = FALSE
        /\ PresentElementsHidden
        /\ hasModelSelectMenuItem => SelectionCleared
        /\ escaped = {}

\* C2's case: a throw, on a page with both elements, after the flag was true
\* and a model was selected
C2_Witness ==
    /\ lastOp.op \in {"config fetch rejected", "config json failed"}
    /\ hasModelSelectMenuItem /\ hasDebugInfoMenuItem
    /\ initCalls = 2 /\ cfgFetching = 0 /\ cfgParsing = 0
    /\ modelSelectDisplay = "none" /\ storedModel = NoKey

\* C3: whenever the gate is evaluated with a false flag (debug_mode false or
\* absent), for every combination of present gated elements each present
\* element is hidden, the selected model is null and the preference is removed.
C3_FalseFlagClearsAlways ==
    (lastOp.op = "config parsed" /\ ~DebugModeOrFalse(lastOp.arg)) =>
        serverMode = FALSE /\ PresentElementsHidden /\ SelectionCleared

\* C4: a config response with debug_mode true leaves each present gated element
\* with display '' and modifies neither the persisted preference nor the
\* in-memory selected model.
C4_TrueRestoresAndKeepsSelection ==
    [][(lastOp'.op = "config parsed" /\ lastOp'.arg.debug_mode = Some(TRUE)) =>
          /\ serverMode' = TRUE
          /\ hasModelSelectMenuItem => modelSelectDisplay' = ""
          /\ hasDebugInfoMenuItem => debugInfoDisplay' = ""
          /\ modelCurrent' = modelCurrent
          /\ storedModel' = storedModel]_vars

\* C4's case: debug_mode true has been applied on a page with both elements
\* while a model was selected and persisted
C4_Witness ==
    /\ lastOp.op = "config parsed" /\ lastOp.arg.debug_mode = Some(TRUE)
    /\ hasModelSelectMenuItem /\ hasDebugInfoMenuItem
    /\ modelSelectDisplay = "" /\ debugInfoDisplay = ""
    /\ storedModel \in Models /\ modelCurrent \in Models

\* ------------------------------------------------------------------ claims: recorder
\* the slot holds the record of the invocation that ran last
StoredByLastCall ==
    /\ lastApiCall # JNull
    /\ lastApiCall.timestamp = lastOp.arg.at

\* C5: after any recordApiCall invocation, whatever payloads it was passed
\* (objects, null, or an absent payload), lastApiCall is the record built from
\* the arguments of that invocation, never one of an earlier call.
C5_LastWriteWins ==
    lastOp.op = "recordApiCall" =>
        /\ StoredByLastCall
        /\ lastApiCall.endpoint = lastOp.arg.endpoint
        /\ lastApiCall.method = lastOp.arg.method
        /\ lastApiCall.status = lastOp.arg.status
        /\ lastApiCall.error = lastOp.arg.error

\* the property or item `k` of a value, undefined when it has none
Child(v, k) ==
    CASE v.t = "object" ->
            IF \E i \in 1..Len(v.props) : v.props[i][1] = k
              THEN v.props[CHOOSE i \in 1..Len(v.props) : v.props[i][1] = k][2]
              ELSE Undefined
      [] v.t = "array" ->
            IF \E i \in 1..Len(v.items) : ToString(i - 1) = k
              THEN v.items[CHOOSE i \in 1..Len(v.items) : ToString(i - 1) = k]
              ELSE Undefined
      [] OTHER -> Undefined

KeysOf(v) ==
    CASE v.t = "object" -> {v.props[i][1] : i \in 1..Len(v.props)}
      [] v.t = "array"  -> {ToString(i - 1) : i \in 1..Len(v.items)}
      [] OTHER          -> {}

RECURSIVE PathsOf(_), ValueAt(_, _)
\* the paths to every value nested in v, the root's <<>> included
PathsOf(v) ==
    {<<>>} \cup UNION {{<<k>> \o q : q \in PathsOf(Child(v, k))} : k \in KeysOf(v)}

ValueAt(v, path) ==
    IF path = <<>> THEN v ELSE ValueAt(Child(v, Head(path)), Tail(path))

\* `copy` is `original` with every string under a key image_data replaced by the
\* placeholder of its length, never the string itself, and all else the same
IsSanitizedCopy(original, copy) ==
    /\ PathsOf(copy) = PathsOf(original)
    /\ \A path \in PathsOf(original) :
          LET o == ValueAt(original, path)
              c == ValueAt(copy, path)
              key == IF path = <<>> THEN "" ELSE path[Len(path)]
          IN  IF key = "image_data" /\ o.t = "string"
                THEN /\ c = Str("[Image: " \o ToString(Len(o.s)) \o " chars]")
                     /\ c.s # o.s
                ELSE IF o.t \in {"object", "array"}
                       THEN c.t = o.t
                       ELSE c = o

\* C6: the record recordApiCall stores holds deep copies of the request and the
\* response in which every image_data string of length N, at any depth, is the
\* placeholder '[Image: N chars]' and not the string, and all else is unchanged.
C6_StoredPayloadsSanitized ==
    (lastOp.op = "recordApiCall" /\ StoredByLastCall) =>
        /\ IsSanitizedCopy(lastOp.arg.request, lastApiCall.request)
        /\ IsSanitizedCopy(lastOp.arg.response, lastApiCall.response)

\* C6's case: a second record, of a request with an image nested in an array of
\* objects and a response with one at the top, has replaced the first
C6_Witness ==
    /\ lastOp.op = "recordApiCall" /\ StoredByLastCall
    /\ clock = 2
    /\ ValueAt(lastOp.arg.request, <<"messages", "0", "image_data">>) = Str(Image)
    /\ ValueAt(lastApiCall.request, <<"messages", "0", "image_data">>) = Str("[Image: 12 chars]")
    /\ ValueAt(lastOp.arg.response, <<"image_data">>) = Str(Image)
    /\ ValueAt(lastApiCall.response, <<"text">>) = Str("memo")

\* ------------------------------------------------------------------ claims: clipboard
LastToast == toasts[Len(toasts)]

\* what a copy operation must do with its slot: `empty` is whether the slot is
\* empty before the call, `text` the text to write, `nothing` the notification
CopiesOnce(name, empty, text, nothing) ==
    IF empty
      THEN /\ clipboardWrites' = clipboardWrites
           /\ toasts' = Append(toasts, [message |-> nothing, write |-> 0])
      ELSE /\ clipboardWrites' =
                Append(clipboardWrites, [by |-> name, text |-> text, state |-> "pending"])
           /\ toasts' = toasts

\* C7: each export operation, on an empty slot, shows 'nothing to copy' and
\* writes nothing; on a populated slot it issues exactly one clipboard write of
\* the pretty-printed JSON of the slot (after the banner for the last call),
\* followed by exactly one success or failure notification.
C7_CopyWritesOnceAndNotifiesOnce ==
    [][/\ lastOp'.op = "copyLastApiCall" =>
            CopiesOnce("copyLastApiCall", lastApiCall = JNull,
                       "=== Memo AI Debug ===\n"
                          \o Stringify(ApiCallObject(lastApiCall), ""),
                       ToastNoHistory)
       /\ lastOp'.op = "copyModelList" =>
            CopiesOnce("copyModelList", lastModelList \in {JNull, Undefined},
                       Stringify(lastModelList, ""), ToastNoModelData)
       /\ lastOp'.op \in {"clipboard write resolved", "clipboard write rejected"} =>
            /\ \A j \in 1..Len(toasts) : toasts[j].write # lastOp'.arg
            /\ Len(toasts') = Len(toasts) + 1
            /\ toasts'[Len(toasts')].write = lastOp'.arg
            /\ toasts'[Len(toasts')].message \in
                  {ToastCopied, ToastModelCopied, ToastCopyFailed}]_vars

\* C8: every failure of a clipboard write in copyLastApiCall or copyModelList,
\* a rejected promise or a page without navigator.clipboard, is caught and
\* shown as the failure notification: no exception leaves the copy operation.
C8_ClipboardFailuresAreCaught ==
    /\ escaped \cap {"copyLastApiCall", "copyModelList"} = {}
    /\ lastOp.op = "clipboard write rejected" =>
          LastToast = [message |-> ToastCopyFailed, write |-> lastOp.arg]

\* ------------------------------------------------------------------ claims: debug modal
\* C9: openDebugModal, closeDebugModal, loadDebugInfo and updateDebugModeUI never
\* raise an exception because the modal container, the content container or a
\* gated menu element is missing: the operation is a no-op for that element.
C9_MissingElementsAreNoOps ==
    escaped \cap {"openDebugModal", "closeDebugModal", "loadDebugInfo",
                  "updateDebugModeUI"} = {}

\* C10: when a loadDebugInfo run fails (non-2xx status, network error or
\* unparsable body) the content container holds exactly one error panel with the
\* message ('HTTP <status>: <statusText>' for a non-2xx) and the hint, no loading
\* indicator and no earlier section, and the run has issued one request only.
C10_FailureShowsOneErrorPanel ==
    /\ debugFetches = Len(loads)
    /\ lastOp.op \in {"debug fetch rejected", "debug not ok", "debug json failed"} =>
          /\ Len(content) = 1
          /\ content[1].block = "debug-error"
          /\ content[1].hint = Hint
          /\ content[1].message =
                IF lastOp.op = "debug not ok"
                  THEN "HTTP " \o ToString(lastOp.arg.res.status) \o ": "
                          \o lastOp.arg.res.statusText
                  ELSE lastOp.arg.message
          /\ loads[lastOp.arg.run] = "done"

\* C10's case: the second of two runs fails with a 500 after the first one
\* rendered a snapshot with a model catalog
C10_Witness ==
    /\ lastOp.op = "debug not ok" /\ lastOp.arg.run = 2
    /\ loads = <<"done", "done">>
    /\ lastModelList = RawListA
    /\ content = ErrorPanel("HTTP 500: Internal Server Error")

\* ------------------------------------------------------------------ claims: closing the modal
\* C11, as stated: when the modal was closed after openDebugModal issued the
\* fetch and before the response arrived, the response is discarded: the
\* content container is left as it was.
C11_ClosedModalDiscardsResult ==
    [][(lastOp'.op = "debug parsed" /\ modalHidden) => content' = content]_vars

\* C11, amended: closing the modal cancels and discards nothing: the response
\* of the fetch in flight is written into the content container, as a snapshot
\* or as the error panel, while the modal stays hidden.
C11_ClosedModalStillRenders ==
    [][(modalHidden /\ lastOp'.op \in {"debug parsed", "debug fetch rejected",
                                       "debug not ok", "debug json failed"}) =>
          /\ modalHidden'
          /\ loads'[lastOp'.arg.run] = "done"
          /\ content' # LoadingIndicator
          /\ content'[1].block =
                IF lastOp'.op = "debug parsed" /\ lastOp'.arg.data # JNull
                      /\ (IsSome(lastOp'.arg.data.cors) =>
                             IsSome(lastOp'.arg.data.cors[1].allowed_origins))
                      /\ (IsSome(lastOp'.arg.data.models) =>
                             lastOp'.arg.data.models[1].raw_list # Undefined)
                  THEN "debug-timestamp" ELSE "debug-error"]_vars

\* C11's case: the modal was opened once and closed, and then the response
\* arrived and was rendered behind the closed modal
C11_Witness ==
    /\ lastOp.op = "debug parsed"
    /\ modalHidden /\ loads = <<"done">>
    /\ Len(content) = 6 /\ content[1].block = "debug-timestamp"
    /\ content[6].block = "models"

\* ------------------------------------------------------------------ claims: gate, re-evaluated
\* the steps that evaluate the gate (they end in updateDebugModeUI), and the
\* flag they evaluate it with
GateEvaluated(o) ==
    o.op \in {"config parsed", "config fetch rejected", "config json failed"}

GateFlag(o) ==
    IF o.op = "config parsed"
      THEN (IsSome(o.arg.debug_mode) /\ o.arg.debug_mode[1])
      ELSE FALSE

\* C12: gating is idempotent: a gate evaluation right after one with the same
\* flag changes neither the flag, the two elements' visibility, the selected
\* model nor the preference; and the downgrade is one-way: once the selected
\* model is null and the preference removed, no step but another part of the
\* app writing them (selectModel), and so no evaluation with a true flag,
\* restores either.
C12_IdempotentOneWay ==
    [][/\ (GateEvaluated(lastOp) /\ GateEvaluated(lastOp')
            /\ GateFlag(lastOp) = GateFlag(lastOp')) =>
              UNCHANGED <<serverMode, modelSelectDisplay, debugInfoDisplay,
                          modelCurrent, storedModel>>
       /\ (SelectionCleared /\ lastOp'.op # "selectModel") =>
              (modelCurrent' = Null /\ storedModel' = NoKey)]_vars

\* C12's case: after both invocations were processed, the last with debug_mode
\* true, the model-selection element is shown again and the selection and the
\* preference are still absent
C12_Witness ==
    /\ lastOp.op = "config parsed" /\ lastOp.arg.debug_mode = Some(TRUE)
    /\ initCalls = 2 /\ cfgFetching = 0 /\ cfgParsing = 0
    /\ hasModelSelectMenuItem /\ modelSelectDisplay = "" /\ serverMode = TRUE
    /\ modelCurrent = Null /\ storedModel = NoKey

\* ------------------------------------------------------------------ claims: sections
\* the blocks of the content container, in order
BlocksOf(c) == [i \in 1..Len(c) |-> c[i].block]

\* a body of the documented shape: an object whose cors, when present, has
\* allowed_origins and whose models, when present, has raw_list
HasDocumentedShape(data) ==
    /\ data # JNull
    /\ IsSome(data.cors) => IsSome(data.cors[1].allowed_origins)
    /\ IsSome(data.models) => data.models[1].raw_list # Undefined

\* C13: after a 2xx debug response with a parsable body of the documented
\* shape, the content holds the timestamp, then the CORS section iff cors is
\* present, the last-API-call section always (with the fallback text when the
\* slot is empty), the environment section always (an empty grid when
\* environment is missing), the environment-variables section iff env_vars is
\* present and the model-catalog section iff models is present; never the
\* error panel.
C13_SectionsFollowFields ==
    (lastOp.op = "debug parsed" /\ hasDebugInfoContent
        /\ HasDocumentedShape(lastOp.arg.data)) =>
        LET data == lastOp.arg.data
            blocks == BlocksOf(content)
            Has(b) == \E i \in 1..Len(content) : content[i].block = b
            The(b) == content[CHOOSE i \in 1..Len(content) : content[i].block = b]
        IN  /\ blocks = <<"debug-timestamp">>
                     \o (IF data.cors # None THEN <<"cors">> ELSE <<>>)
                     \o <<"last-api-call", "environment">>
                     \o (IF data.env_vars # None THEN <<"env-vars">> ELSE <<>>)
                     \o (IF data.models # None THEN <<"models">> ELSE <<>>)
            /\ ~Has("debug-error") /\ ~Has("loading-indicator")
            /\ lastApiCall = JNull => The("last-api-call").body = [hint |-> NoApiCallYet]
            /\ lastApiCall # JNull => DOMAIN The("last-api-call").body = {"pre"}
            /\ data.environment = None => The("environment").items = <<>>
            /\ data.cors # None =>
                  /\ The("cors").origins = "http://localhost:8000, https://memo.example"
                  /\ The("cors").restricted \in {"yes", "no (all allowed)"}

\* C13's case: a body with none of the optional fields was rendered before any
\* API call was recorded: two sections, the fallback text and an empty grid
C13_Witness ==
    /\ lastOp.op = "debug parsed"
    /\ lastOp.arg.data = DebugBody(None, None, None, None, None)
    /\ BlocksOf(content) = <<"debug-timestamp", "last-api-call", "environment">>
    /\ content[2].body = [hint |-> NoApiCallYet]
    /\ content[3].items = <<>>

\* ------------------------------------------------------------------ claims: default prompt
\* C14, as stated: a successful config fetch whose body carries a
\* default_system_prompt string overwrites App.defaultPrompt with it; every
\* other step leaves the slot unchanged.
C14_PromptStringOverwrites ==
    [][IF lastOp'.op = "config parsed" /\ lastOp'.arg.default_system_prompt # None
         THEN defaultPrompt' = lastOp'.arg.default_system_prompt[1]
         ELSE defaultPrompt' = defaultPrompt]_vars

\* C14, amended: the slot is overwritten when the body carries a non-empty
\* default_system_prompt string; when the field is absent or the empty
\* string, or the fetch fails (non-2xx or a thrown error), the slot is left
\* unchanged.
C14_NonEmptyPromptOverwrites ==
    [][IF /\ lastOp'.op = "config parsed"
          /\ lastOp'.arg.default_system_prompt # None
          /\ lastOp'.arg.default_system_prompt # Some("")
         THEN defaultPrompt' = lastOp'.arg.default_system_prompt[1]
         ELSE defaultPrompt' = defaultPrompt]_vars

\* C14's case: a first invocation loaded the prompt of the backend, and a
\* second one, which failed or carried no usable prompt, left it in the slot
C14_Witness ==
    /\ defaultPrompt = "You are a secretary."
    /\ initCalls = 2 /\ cfgFetching = 0 /\ cfgParsing = 0
    /\ \/ lastOp.op \in {"config not ok", "config fetch rejected", "config json failed"}
       \/ /\ lastOp.op = "config parsed"
          /\ lastOp.arg.default_system_prompt \in {None, Some("")}

\* ------------------------------------------------------------------ claims: the two exports
\* what an export operation does to the clipboard, decided by its own slot
\* alone: one more write, of `text`, when the slot is populated and the page
\* has a clipboard, and no write otherwise
WritesFromOwnSlot(name, populated, text) ==
    clipboardWrites' =
        IF populated /\ hasClipboard
          THEN Append(clipboardWrites, [by |-> name, text |-> text, state |-> "pending"])
          ELSE clipboardWrites

\* C15: neither export writes lastModelList, lastApiCall or the debug flag;
\* whether copyModelList writes, and what, is decided by lastModelList alone,
\* and for copyLastApiCall by lastApiCall alone; and a write that is still
\* pending keeps its text whatever runs meanwhile.
C15_ExportsDoNotInterfere ==
    [][/\ lastOp'.op \in {"copyModelList", "copyLastApiCall"} =>
            UNCHANGED <<lastModelList, lastApiCall, serverMode>>
       /\ lastOp'.op = "copyModelList" =>
            WritesFromOwnSlot("copyModelList",
                              lastModelList \notin {JNull, Undefined},
                              Stringify(lastModelList, ""))
       /\ lastOp'.op = "copyLastApiCall" =>
            WritesFromOwnSlot("copyLastApiCall", lastApiCall # JNull,
                              "=== Memo AI Debug ===\n"
                                 \o Stringify(ApiCallObject(lastApiCall), ""))
       /\ \A i \in 1..Len(clipboardWrites) :
            /\ clipboardWrites'[i].text = clipboardWrites[i].text
            /\ clipboardWrites'[i].by = clipboardWrites[i].by]_vars

\* C15's case: copyLastApiCall ran while the write of copyModelList was still
\* pending, and both writes are now under way, each with its own slot's text
C15_Witness ==
    /\ lastOp.op = "copyLastApiCall"
    /\ Len(clipboardWrites) = 2
    /\ clipboardWrites[1].by = "copyModelList" /\ clipboardWrites[1].state = "pending"
    /\ clipboardWrites[2].by = "copyLastApiCall" /\ clipboardWrites[2].state = "pending"
    /\ clipboardWrites[1].text = Stringify(RawListA, "")
    /\ SubSeq(clipboardWrites[2].text, 1, 21) = "=== Memo AI Debug ==="

\* ------------------------------------------------------------------ claims: overlapping loads
\* the steps in which a run of loadDebugInfo settles
Settled(o) ==
    o.op \in {"debug parsed", "debug fetch rejected", "debug not ok", "debug json failed"}

\* C16: when a run of loadDebugInfo settles, whichever run it is and however
\* many runs were issued after it, the content container shows that run's
\* outcome: its snapshot (its timestamp first, a model catalog iff it has
\* models) or the error panel with its message; and a snapshot with models
\* has overwritten the stashed model list.
C16_LastSettledWins ==
    (Settled(lastOp) /\ hasDebugInfoContent) =>
        IF lastOp.op = "debug parsed" /\ HasDocumentedShape(lastOp.arg.data)
          THEN LET data == lastOp.arg.data IN
               /\ content[1].block = "debug-timestamp"
               /\ content[1].text =
                     (IF data.timestamp \in {None, Some("")}
                        THEN "N/A" ELSE data.timestamp[1])
               /\ IF data.models # None
                    THEN /\ content[Len(content)].block = "models"
                         /\ lastModelList = data.models[1].raw_list
                    ELSE content[Len(content)].block # "models"
          ELSE /\ Len(content) = 1
               /\ content[1].block = "debug-error"
               /\ lastOp.op = "debug not ok" =>
                     content[1].message =
                        "HTTP " \o ToString(lastOp.arg.res.status) \o ": "
                           \o lastOp.arg.res.statusText
               /\ lastOp.op \in {"debug fetch rejected", "debug json failed"} =>
                     content[1].message = lastOp.arg.message

\* C16's case: of two overlapping runs the one issued first settled last, and
\* its snapshot and its model list are what the page holds
C16_Witness ==
    /\ lastOp.op = "debug parsed" /\ lastOp.arg.run = 1
    /\ loads = <<"done", "done">>
    /\ lastOp.arg.data = DebugBody(Some("2026-11-01T12:00:00"), Some(CorsInfo),
                                   Some(Environment), Some(EnvVars),
                                   Some(ModelList(RawListA)))
    /\ content[1].text = "2026-11-01T12:00:00"
    /\ content[Len(content)].block = "models"
    /\ lastModelList = RawListA

\* ------------------------------------------------------------------ claims: the stashed model list
\* C17: the stashed model list is written only by the render of a snapshot
\* that has a models field, with that snapshot's raw_list, and no other step
\* (a snapshot without models, a failed load, a copy) changes or clears it;
\* copyModelList exports the list that is stashed, also when the content
\* container shows no model catalog any more.  A models object without
\* raw_list is not of the documented shape and is left out of the statement.
C17_StashOutlivesCatalog ==
    [][/\ IF lastOp'.op = "debug parsed" /\ lastOp'.arg.data.models # None
            THEN lastOp'.arg.data.models[1].raw_list # Undefined =>
                    lastModelList' = lastOp'.arg.data.models[1].raw_list
            ELSE lastModelList' = lastModelList
       /\ (lastOp'.op = "copyModelList" /\ lastModelList \in {RawListA, RawListB}) =>
            /\ Len(clipboardWrites') = Len(clipboardWrites) + 1
            /\ clipboardWrites'[Len(clipboardWrites')].text = Stringify(lastModelList, "")]_vars

\* C17's case: the list of an earlier snapshot is copied while the container
\* shows the error panel of a later, failed load
C17_Witness ==
    /\ lastOp.op = "copyModelList"
    /\ loads = <<"done", "done">>
    /\ Len(content) = 1 /\ content[1].block = "debug-error"
    /\ lastModelList = RawListA
    /\ Len(clipboardWrites) = 1
    /\ clipboardWrites[1].text = Stringify(RawListA, "")

\* ------------------------------------------------------------------ claims: overlapping initialisations
\* each present gated element is hidden exactly when the flag is false
VisibilityMatchesFlag ==
    /\ hasModelSelectMenuItem => (modelSelectDisplay = "none" <=> ~serverMode)
    /\ hasDebugInfoMenuItem => (debugInfoDisplay = "none" <=> ~serverMode)

\* the steps in which the response of an invocation is processed
Processed(o) == GateEvaluated(o) \/ o.op = "config not ok"

\* C18: with overlapping invocations and any mix of outcomes, every step that
\* evaluates the gate leaves the visibility matching the flag, every later
\* step keeps it matching, and the flag is the one of the invocation whose
\* response was processed last (false for a non-2xx response and for a thrown
\* error): no other step changes it.
C18_FlagAndVisibilityTogether ==
    [][/\ GateEvaluated(lastOp') => VisibilityMatchesFlag'
       /\ VisibilityMatchesFlag => VisibilityMatchesFlag'
       /\ IF Processed(lastOp')
            THEN serverMode' = GateFlag(lastOp')
            ELSE serverMode' = serverMode]_vars

\* ------------------------------------------------------------------ claims: the loading indicator
\* C19: whenever the content container holds the loading indicator that
\* loadDebugInfo wrote, it later holds a rendered snapshot or the error panel,
\* provided every issued fetch settles.
C19_LoadingIsReplaced ==
    (content = LoadingIndicator) ~>
        (Len(content) > 0 /\ content[1].block \in {"debug-timestamp", "debug-error"})

\* C19's case: the two runs have settled, the last with a malformed snapshot
\* whose render threw, and the container holds the error panel
C19_Witness ==
    /\ lastOp.op = "debug parsed" /\ ~HasDocumentedShape(lastOp.arg.data)
    /\ loads = <<"done", "done">>
    /\ Len(content) = 1 /\ content[1].block = "debug-error"
    /\ content[1].message \in {"TypeError: data is null",
                                "TypeError: data.cors.allowed_origins is undefined",
                                "TypeError: JSON.stringify(...) is undefined"}

====
